---- MODULE Spec2Model ----
(***************************************************************************)
(* A model of jupyterlab/dynamic_labextensions.py: the staging of a        *)
(* labextension into a labextensions directory, by symbolic link or by     *)
(* copy (develop_labextension, develop_labextension_py, _should_copy,      *)
(* _maybe_copy, _get_labextension_dir), over an explicit model of the      *)
(* filesystem calls the code makes (os.path.exists/lexists/isdir/islink,   *)
(* os.stat, os.makedirs, os.symlink, os.remove, os.walk, shutil.rmtree,    *)
(* shutil.copy2).                                                          *)
(*                                                                         *)
(* A path is a sequence of components: <<"ext","foo","a.js">> is           *)
(* /ext/foo/a.js, <<>> is /.  A last component "" is a trailing separator  *)
(* (pjoin(p, '')).  A filesystem is a function from the canonical paths of *)
(* its entries to the entries; every entry lives in a real directory, so   *)
(* nothing is stored below a symbolic link.  Modification times are        *)
(* natural numbers in units of 1e-6 s, the unit of the fudge factor of     *)
(* _should_copy.                                                           *)
(***************************************************************************)
EXTENDS Integers, Sequences, FiniteSets, TLC

VARIABLES
    fs,       \* the filesystem
    last,     \* the record of the last call of the public or private API
    calls,    \* how many calls were made
    touched,  \* how many times the environment modified a source file
    dirty,    \* TRUE when the environment modified the filesystem after the last call
    procs     \* the invocations of develop_labextension that run side by side

vars == <<fs, last, calls, touched, dirty, procs>>

(***************************************************************************)
(* Bounds of the model.                                                    *)
(***************************************************************************)
MaxCalls == 2
MaxTouch == 1
MaxSymlinks == 2

(***************************************************************************)
(* Filesystem entries and paths.                                           *)
(***************************************************************************)
File(m, d) == [kind |-> "file", mtime |-> m, data |-> d, target |-> <<>>]
Dir == [kind |-> "dir", mtime |-> 0, data |-> 0, target |-> <<>>]
Link(t) == [kind |-> "link", mtime |-> 0, data |-> 0, target |-> t]

NoEnt == <<"<ENOENT>">>
None == "<None>"

Front(p) == SubSeq(p, 1, Len(p) - 1)
Last(p) == p[Len(p)]
IsPrefix(q, p) == Len(q) <= Len(p) /\ SubSeq(p, 1, Len(q)) = q

\* os.path.normpath on an absolute path without dots: separators collapse,
\* a trailing one goes.
normpath(p) == SelectSeq(p, LAMBDA c : c # "")

\* os.path.basename: what follows the last separator.
basename(p) == IF p = <<>> THEN "" ELSE Last(p)

\* os.path.dirname of a normalised path.
dirname(p) == IF p = <<>> THEN <<>> ELSE Front(p)

\* os.path.join(p, rel) for a relative rel; join(p, '') ends in a separator.
pjoin(p, rel) == IF rel = <<>> THEN Append(p, "") ELSE p \o rel

\* os.path.abspath of a path that is already absolute.
abspath(p) == normpath(p)

IsDirAt(f, q) == q = <<>> \/ (q \in DOMAIN f /\ f[q].kind = "dir")

\* stat(2): the canonical path of the entry p names, every symbolic link
\* followed (the last one too), or NoEnt (ENOENT, ENOTDIR, ELOOP).  Lookup
\* is the step from a resolved directory par to its entry name.
RECURSIVE Real(_, _, _)
Lookup(f, par, name, fuel) ==
    IF par = NoEnt \/ ~IsDirAt(f, par) THEN NoEnt
    ELSE IF name = "" THEN par
    ELSE IF Append(par, name) \notin DOMAIN f THEN NoEnt
    ELSE IF f[Append(par, name)].kind = "link"
         THEN IF fuel = 0 THEN NoEnt
              ELSE Real(f, f[Append(par, name)].target, fuel - 1)
    ELSE Append(par, name)
Real(f, p, fuel) ==
    IF p = <<>> THEN <<>> ELSE Lookup(f, Real(f, Front(p), fuel), Last(p), fuel)

\* lstat(2): the canonical place of the entry p names, the last component
\* not followed; the place may be empty. NoEnt when the parent is no directory.
Place(f, par, name) ==
    IF par = NoEnt \/ ~IsDirAt(f, par) THEN NoEnt
    ELSE IF name = "" THEN par
    ELSE Append(par, name)
LReal(f, p) ==
    IF p = <<>> THEN <<>> ELSE Place(f, Real(f, Front(p), MaxSymlinks), Last(p))

\* open(p, 'wb'): the place of the file that is written: links are followed,
\* a dangling last link is written through.
RECURSIVE OpenPlace(_, _, _)
OpenAt(f, p, q, fuel) ==
    IF q = NoEnt \/ q = <<>> THEN q
    ELSE IF q \in DOMAIN f /\ f[q].kind = "link"
         THEN IF fuel = 0 THEN NoEnt ELSE OpenPlace(f, f[q].target, fuel - 1)
    ELSE IF Last(p) = "" /\ ~IsDirAt(f, q) THEN NoEnt
    ELSE q
OpenPlace(f, p, fuel) == OpenAt(f, p, LReal(f, p), fuel)

Present(f, q) == q # NoEnt /\ (q = <<>> \/ q \in DOMAIN f)
exists(f, p) == Real(f, p, MaxSymlinks) # NoEnt
lexists(f, p) == Present(f, LReal(f, p))
isdir(f, p) == IsDirAt(f, Real(f, p, MaxSymlinks))
IsLinkAt(f, q) == q \in DOMAIN f /\ f[q].kind = "link"
islink(f, p) == Last(p) # "" /\ IsLinkAt(f, LReal(f, p))

\* The entries below (and at) the real directory q.
Under(f, q) == {p \in DOMAIN f : IsPrefix(q, p)}
Without(f, S) == [p \in DOMAIN f \ S |-> f[p]]
Children(f, q) == {p[Len(q) + 1] : p \in {r \in DOMAIN f : Len(r) = Len(q) + 1 /\ IsPrefix(q, r)}}

(***************************************************************************)
(* The filesystem calls.  Each takes a filesystem and returns the new one  *)
(* with the error the call raises ("none" when it returns).  A definition  *)
(* named ...At takes the resolved place of its path as an argument.        *)
(***************************************************************************)
Ok(f) == [fs |-> f, err |-> "none"]
Fail(f, e) == [fs |-> f, err |-> e]

Strip(p) == IF p # <<>> /\ Last(p) = "" THEN Front(p) ELSE p

\* os.mkdir
MkdirAt(f, q) ==
    IF q = NoEnt THEN Fail(f, "FileNotFoundError")
    ELSE IF q = <<>> \/ q \in DOMAIN f THEN Fail(f, "FileExistsError")
    ELSE Ok((q :> Dir) @@ f)
mkdir(f, p) == MkdirAt(f, LReal(f, Strip(p)))

\* os.makedirs(name, exist_ok): the missing parents first, then the leaf; a
\* FileExistsError of the parents is swallowed, one of the leaf is raised
\* unless exist_ok and the leaf is a directory.
RECURSIVE makedirs(_, _, _)
MakeLeaf(up, p, exist_ok, r) ==
    IF r.err = "none" THEN r
    ELSE IF exist_ok /\ isdir(up.fs, p) THEN Ok(up.fs)
    ELSE Fail(up.fs, r.err)
MakeAfter(up, p, exist_ok) ==
    IF up.err \notin {"none", "FileExistsError"} THEN up
    ELSE MakeLeaf(up, p, exist_ok, mkdir(up.fs, p))
makedirs(f, p, exist_ok) ==
    MakeAfter(IF dirname(Strip(p)) # <<>> /\ ~exists(f, dirname(Strip(p)))
              THEN makedirs(f, dirname(Strip(p)), exist_ok)
              ELSE Ok(f),
              p, exist_ok)

\* jupyter_core.utils.ensure_dir_exists: makedirs that tolerates EEXIST, then
\* the path must be a directory.
EnsureAfter(r, p) ==
    IF r.err \notin {"none", "FileExistsError"} THEN r
    ELSE IF ~isdir(r.fs, p) THEN Fail(r.fs, "IOError")
    ELSE Ok(r.fs)
ensure_dir_exists(f, p) == EnsureAfter(makedirs(f, p, FALSE), p)

\* shutil.rmtree of a real directory: the directory and everything stored in
\* it go; a symbolic link inside is unlinked, never followed.
RmtreeAt(f, q) ==
    IF q = NoEnt \/ q \notin DOMAIN f THEN Fail(f, "FileNotFoundError")
    ELSE IF f[q].kind # "dir" THEN Fail(f, "OSError")
    ELSE Ok(Without(f, Under(f, q)))
rmtree(f, p) == RmtreeAt(f, LReal(f, p))

\* os.remove: unlinks one file or one symbolic link.
RemoveAt(f, q) ==
    IF q = NoEnt \/ q \notin DOMAIN f THEN Fail(f, "FileNotFoundError")
    ELSE IF f[q].kind = "dir" THEN Fail(f, "IsADirectoryError")
    ELSE Ok(Without(f, {q}))
remove(f, p) == RemoveAt(f, LReal(f, p))

\* os.symlink(target, p)
SymlinkAt(f, target, q) ==
    IF q = NoEnt THEN Fail(f, "FileNotFoundError")
    ELSE IF q = <<>> \/ q \in DOMAIN f THEN Fail(f, "FileExistsError")
    ELSE Ok((q :> Link(target)) @@ f)
symlink(f, target, p) == SymlinkAt(f, target, LReal(f, p))

\* shutil.copy2(src, dst): into dst when dst is a directory; the source is
\* opened first, the destination is written through symbolic links, and
\* copystat gives it the modification time of the source.  s is the real
\* source, d the real destination, w the place that is written.
CopyAt(f, s, d, w) ==
    IF s # NoEnt /\ s = d THEN Fail(f, "SameFileError")
    ELSE IF s = NoEnt THEN Fail(f, "FileNotFoundError")
    ELSE IF IsDirAt(f, s) THEN Fail(f, "IsADirectoryError")
    ELSE IF w = NoEnt THEN Fail(f, "FileNotFoundError")
    ELSE IF IsDirAt(f, w) THEN Fail(f, "IsADirectoryError")
    ELSE Ok((w :> File(f[s].mtime, f[s].data)) @@ f)
CopyTo(f, src, dst1) ==
    CopyAt(f, Real(f, src, MaxSymlinks), Real(f, dst1, MaxSymlinks),
           OpenPlace(f, dst1, MaxSymlinks))
copy2(f, src, dst) ==
    CopyTo(f, src, IF isdir(f, dst) THEN Append(Strip(dst), basename(src)) ELSE dst)

\* os.stat(p).st_mtime of an entry that exists.  The model keeps no
\* modification time for directories: a directory's is dirTime, an input.
MtimeAt(f, q, dirTime) == IF IsDirAt(f, q) THEN dirTime ELSE f[q].mtime
st_mtime(f, p, dirTime) == MtimeAt(f, Real(f, p, MaxSymlinks), dirTime)

\* os.scandir in the order the filesystem gives, order being a sequence of
\* all names.
ScanNames(names, order) == SelectSeq(order, LAMBDA n : n \in names)
scandir(f, q, order) == ScanNames(Children(f, q), order)

(***************************************************************************)
(* The environment of the module: jupyter_core.paths.  A directory given   *)
(* as a string argument (prefix, labextensions_dir) is one component.      *)
(***************************************************************************)
jupyter_data_dir == <<"user">>
ENV_JUPYTER_PATH == << <<"env">> >>
SYSTEM_JUPYTER_PATH == << <<"sys">> >>

\* The truth value of a string or None argument.
Truthy(v) == v # None /\ v # ""

(***************************************************************************)
(* _get_labextension_dir: the directory the selectors name, or the         *)
(* ArgumentConflict error with the selectors that are set, as name and     *)
(* repr of the value.                                                      *)
(***************************************************************************)
Conflicting(user, sys_prefix, prefix, labextensions_dir) == <<
    [n |-> "user", set |-> user, v |-> "True"],
    [n |-> "prefix", set |-> Truthy(prefix), v |-> prefix],
    [n |-> "labextensions_dir", set |-> Truthy(labextensions_dir),
     v |-> labextensions_dir],
    [n |-> "sys_prefix", set |-> sys_prefix, v |-> "True"] >>

ConflictingSet(chosen) == [i \in 1..Len(chosen) |-> <<chosen[i].n, chosen[i].v>>]

\* A mapping that sends sys_prefix to the system-wide path.
LabextFor_System(user, sys_prefix, prefix, labextensions_dir) ==
    IF user THEN jupyter_data_dir \o <<"labextensions">>
    ELSE IF sys_prefix THEN SYSTEM_JUPYTER_PATH[1] \o <<"labextensions">>
    ELSE IF Truthy(prefix) THEN <<prefix>> \o <<"share", "jupyter", "labextensions">>
    ELSE IF Truthy(labextensions_dir) THEN <<labextensions_dir>>
    ELSE SYSTEM_JUPYTER_PATH[1] \o <<"labextensions">>

LabextFor(user, sys_prefix, prefix, labextensions_dir) ==
    IF user THEN jupyter_data_dir \o <<"labextensions">>
    ELSE IF sys_prefix THEN ENV_JUPYTER_PATH[1] \o <<"labextensions">>
    ELSE IF Truthy(prefix) THEN <<prefix>> \o <<"share", "jupyter", "labextensions">>
    ELSE IF Truthy(labextensions_dir) THEN <<labextensions_dir>>
    ELSE SYSTEM_JUPYTER_PATH[1] \o <<"labextensions">>

\* A resolver that lets two selectors through and rejects only three.
GetDir_Lenient(user, sys_prefix, prefix, labextensions_dir, conflicting_set) ==
    IF Len(conflicting_set) > 2
    THEN [err |-> "ArgumentConflict", labext |-> NoEnt, msg |-> conflicting_set]
    ELSE [err |-> "none", msg |-> <<>>,
          labext |-> LabextFor(user, sys_prefix, prefix, labextensions_dir)]

GetDir(user, sys_prefix, prefix, labextensions_dir, conflicting_set) ==
    IF Len(conflicting_set) > 1
    THEN [err |-> "ArgumentConflict", labext |-> NoEnt, msg |-> conflicting_set]
    ELSE [err |-> "none", msg |-> <<>>,
          labext |-> LabextFor(user, sys_prefix, prefix, labextensions_dir)]

_get_labextension_dir(user, sys_prefix, prefix, labextensions_dir) ==
    GetDir(user, sys_prefix, prefix, labextensions_dir,
           ConflictingSet(SelectSeq(Conflicting(user, sys_prefix, prefix, labextensions_dir),
                                    LAMBDA c : c.set)))

(***************************************************************************)
(* _should_copy: the fudge factor of the comparison, in units of 1e-6 s.   *)
(***************************************************************************)
Epsilon == 1

\* A staleness check that always asks for the copy.
_should_copy_Always(f, src, dest, dirTime) ==
    IF ~exists(f, dest) THEN [ret |-> TRUE, err |-> "none"]
    ELSE IF ~exists(f, src) THEN [ret |-> FALSE, err |-> "FileNotFoundError"]
    ELSE [ret |-> TRUE, err |-> "none"]

\* A staleness check without the tolerance.
_should_copy_NoEpsilon(f, src, dest, dirTime) ==
    IF ~exists(f, dest) THEN [ret |-> TRUE, err |-> "none"]
    ELSE IF ~exists(f, src) THEN [ret |-> FALSE, err |-> "FileNotFoundError"]
    ELSE [ret |-> st_mtime(f, src, dirTime) - st_mtime(f, dest, dirTime) > 0,
          err |-> "none"]

_should_copy(f, src, dest, dirTime) ==
    IF ~exists(f, dest) THEN [ret |-> TRUE, err |-> "none"]
    ELSE IF ~exists(f, src) THEN [ret |-> FALSE, err |-> "FileNotFoundError"]
    ELSE [ret |-> st_mtime(f, src, dirTime) - st_mtime(f, dest, dirTime) > Epsilon,
          err |-> "none"]

(***************************************************************************)
(* The run of one call: the filesystem so far, the error raised ("none"    *)
(* while the call runs on) and the log of the filesystem calls made.       *)
(***************************************************************************)
\* A run: the filesystem so far, the error raised, and the calls made, each
\* with its arguments, whether the directory that holds dst was a directory
\* when it was made (held), and whether it returned (ok).
Start(f) == [fs |-> f, err |-> "none", log |-> <<>>]
Raise(st, e) == IF st.err # "none" THEN st ELSE [st EXCEPT !.err = e]

\* A call whose error is dropped: the run goes on.
Do_Swallow(st, op, src, dst, r) ==
    IF st.err # "none" THEN st
    ELSE [fs |-> r.fs, err |-> "none",
          log |-> Append(st.log, [op |-> op, src |-> src, dst |-> dst,
                                   held |-> isdir(st.fs, dirname(Strip(dst))),
                                   ok |-> r.err = "none"])]

Do(st, op, src, dst, r) ==
    IF st.err # "none" THEN st
    ELSE [fs |-> r.fs, err |-> r.err,
          log |-> Append(st.log, [op |-> op, src |-> src, dst |-> dst,
                                   held |-> isdir(st.fs, dirname(Strip(dst))),
                                   ok |-> r.err = "none"])]

Note(st, op, src, dst) ==
    IF st.err # "none" THEN st
    ELSE [st EXCEPT !.log = Append(@, [op |-> op, src |-> src, dst |-> dst,
                                       held |-> isdir(st.fs, dirname(Strip(dst))),
                                       ok |-> TRUE])]

\* A copy made whatever _should_copy answers.
MaybeCopyOn_Force(st, src, dest, sc) ==
    IF sc.err # "none" THEN Raise(st, sc.err)
    ELSE Do(st, "copy2", src, dest, copy2(st.fs, src, dest))

\* _maybe_copy: copy2 when _should_copy says so (sc is its answer).
MaybeCopyOn(st, src, dest, sc) ==
    IF sc.err # "none" THEN Raise(st, sc.err)
    ELSE IF sc.ret THEN Do(st, "copy2", src, dest, copy2(st.fs, src, dest))
    ELSE Note(st, "up_to_date", src, dest)

_maybe_copy(st, src, dest, dirTime) ==
    IF st.err # "none" THEN st
    ELSE MaybeCopyOn(st, src, dest, _should_copy(st.fs, src, dest, dirTime))

\* The inner loop of develop_labextension: for file_name in files.
RECURSIVE CopyFiles(_, _, _, _, _)
CopyFiles(st, files, parent, dest_dir, dirTime) ==
    IF files = <<>> \/ st.err # "none" THEN st
    ELSE CopyFiles(_maybe_copy(st, Append(Strip(parent), Head(files)),
                                   Append(Strip(dest_dir), Head(files)), dirTime),
                   Tail(files), parent, dest_dir, dirTime)

\* One round of os.walk: the names of the directory q, split into dirs (what
\* is a directory, links followed) and files (the rest).
SplitNames(f, q, names) ==
    [dirs |-> SelectSeq(names, LAMBDA n : isdir(f, Append(q, n))),
     files |-> SelectSeq(names, LAMBDA n : ~isdir(f, Append(q, n)))]
ListingAt(f, q, order) ==
    IF q = NoEnt \/ ~IsDirAt(f, q) THEN [dirs |-> <<>>, files |-> <<>>]
    ELSE SplitNames(f, q, scandir(f, q, order))
Listing(f, parent, order) == ListingAt(f, Real(f, parent, MaxSymlinks), order)

\* The body of the outer loop for one directory: make the mirrored directory
\* when it does not exist, then copy the files.
MakeDestDir(st, dest_dir) ==
    IF st.err # "none" \/ exists(st.fs, dest_dir) THEN st
    ELSE Do(st, "makedirs", <<>>, dest_dir, makedirs(st.fs, dest_dir, FALSE))

\* A walk that does not go below the directory it starts in.
WalkDirs_Flat(st, dirs, path, rel, full_dest, order, dirTime) == st

\* The outer loop: for parent, dirs, files in os.walk(path), top down, a
\* directory scanned when the walk reaches it, a link to a directory listed
\* among dirs and not entered.  rel is parent[len(path):].
RECURSIVE Walk(_, _, _, _, _, _)
RECURSIVE WalkDirs(_, _, _, _, _, _, _)
WalkOn(st, path, rel, full_dest, order, dirTime, ls) ==
    WalkDirs(CopyFiles(MakeDestDir(st, pjoin(full_dest, rel)), ls.files,
                       Strip(path) \o rel, pjoin(full_dest, rel), dirTime),
             ls.dirs, path, rel, full_dest, order, dirTime)

Walk(st, path, rel, full_dest, order, dirTime) ==
    IF st.err # "none" THEN st
    ELSE WalkOn(st, path, rel, full_dest, order, dirTime,
                Listing(st.fs, pjoin(Strip(path), rel), order))

WalkDirs(st, dirs, path, rel, full_dest, order, dirTime) ==
    IF dirs = <<>> \/ st.err # "none" THEN st
    ELSE WalkDirs(IF islink(st.fs, Append(Strip(path) \o rel, Head(dirs))) THEN st
                  ELSE Walk(st, path, Append(rel, Head(dirs)), full_dest, order, dirTime),
                  Tail(dirs), path, rel, full_dest, order, dirTime)

(***************************************************************************)
(* develop_labextension.  req is the call's arguments; order and dirTime   *)
(* are what the filesystem decides (the order of os.scandir, the           *)
(* modification time of directories).  The steps are applied one to the    *)
(* run the step before left: EnsureLabext, Purge, MakeParent, Stage.       *)
(***************************************************************************)
\* A default destination taken from the path as given, separators kept.
DestinationOf_NoNorm(req) ==
    IF ~Truthy(req.destination) THEN basename(req.path) ELSE req.destination

DestinationOf(req) ==
    IF ~Truthy(req.destination) THEN basename(normpath(req.path)) ELSE req.destination

FullDest(labext, req) == normpath(Append(labext, DestinationOf(req)))

EnsureLabext(f, labext) ==
    Do(Start(f), "ensure_dir_exists", <<>>, labext, ensure_dir_exists(f, labext))

\* A purge that removes nothing.
Purge_Keep(st, req, full_dest) == st

\* A purge that calls rmtree on what a link to a directory points at.
Purge_Through(st, req, full_dest) ==
    IF st.err # "none" \/ ~req.overwrite \/ ~lexists(st.fs, full_dest) THEN st
    ELSE IF isdir(st.fs, full_dest)
         THEN Do(st, "rmtree", <<>>, full_dest,
                 RmtreeAt(st.fs, Real(st.fs, full_dest, MaxSymlinks)))
    ELSE Do(st, "remove", <<>>, full_dest, remove(st.fs, full_dest))

\* A purge that does not look at the overwrite flag.
Purge_Always(st, req, full_dest) ==
    IF st.err # "none" \/ ~lexists(st.fs, full_dest) THEN st
    ELSE IF isdir(st.fs, full_dest) /\ ~islink(st.fs, full_dest)
         THEN Do(st, "rmtree", <<>>, full_dest, rmtree(st.fs, full_dest))
    ELSE Do(st, "remove", <<>>, full_dest, remove(st.fs, full_dest))

Purge(st, req, full_dest) ==
    IF st.err # "none" \/ ~req.overwrite \/ ~lexists(st.fs, full_dest) THEN st
    ELSE IF isdir(st.fs, full_dest) /\ ~islink(st.fs, full_dest)
         THEN Do(st, "rmtree", <<>>, full_dest, rmtree(st.fs, full_dest))
    ELSE Do(st, "remove", <<>>, full_dest, remove(st.fs, full_dest))

MakeParent(st, full_dest) ==
    IF st.err # "none" THEN st
    ELSE Do(st, "makedirs_parent", <<>>, dirname(full_dest),
            makedirs(st.fs, dirname(full_dest), TRUE))

\* A link stage that leaves a real entry alone without raising.
StageLink_Silent(st, path, full_dest) ==
    IF ~exists(st.fs, full_dest)
    THEN Do(st, "symlink", path, full_dest, symlink(st.fs, path, full_dest))
    ELSE st

\* A link stage that points an existing link at the requested source.
StageLink_Retarget(st, path, full_dest) ==
    IF ~exists(st.fs, full_dest)
    THEN Do(st, "symlink", path, full_dest, symlink(st.fs, path, full_dest))
    ELSE IF ~islink(st.fs, full_dest) THEN Raise(st, "ValueError")
    ELSE Do(st, "symlink", path, full_dest,
            symlink(remove(st.fs, full_dest).fs, path, full_dest))

StageLink(st, path, full_dest) ==
    IF ~exists(st.fs, full_dest)
    THEN Do(st, "symlink", path, full_dest, symlink(st.fs, path, full_dest))
    ELSE IF ~islink(st.fs, full_dest) THEN Raise(st, "ValueError")
    ELSE st

Stage(st, req, full_dest, order, dirTime) ==
    IF st.err # "none" THEN st
    ELSE IF req.symlink THEN StageLink(st, abspath(req.path), full_dest)
    ELSE IF isdir(st.fs, req.path)
         THEN Walk(st, pjoin(abspath(req.path), <<>>), <<>>, full_dest, order, dirTime)
    ELSE _maybe_copy(st, req.path, full_dest, dirTime)

Return(st, full_dest) ==
    [fs |-> st.fs, err |-> st.err, log |-> st.log, msg |-> <<>>,
     ret |-> IF st.err = "none" THEN full_dest ELSE NoEnt, full_dest |-> full_dest]

DevelopIn(f, req, order, dirTime, labext, full_dest) ==
    Return(Stage(MakeParent(Purge(EnsureLabext(f, labext), req, full_dest), full_dest),
                 req, full_dest, order, dirTime),
           full_dest)

DevelopAt(f, req, order, dirTime, d) ==
    IF d.err # "none"
    THEN [fs |-> f, err |-> d.err, ret |-> NoEnt, log |-> <<>>, msg |-> d.msg,
          full_dest |-> NoEnt]
    ELSE DevelopIn(f, req, order, dirTime, d.labext, FullDest(d.labext, req))

develop_labextension(f, req, order, dirTime) ==
    DevelopAt(f, req, order, dirTime,
              _get_labextension_dir(req.user, req.sys_prefix, None, req.labextensions_dir))

(***************************************************************************)
(* develop_labextension_py.  module is what _get_labextension_metadata     *)
(* gives: the directory of the module (base_path) and the declared pairs   *)
(* (labexts).  The loop keeps the destinations returned so far and, for    *)
(* the properties, one record per pair attempted (steps).                  *)
(***************************************************************************)
PyStart(f) == [fs |-> f, err |-> "none", full_dests |-> <<>>, log |-> <<>>, steps |-> <<>>]

\* A loop step that drops the error of the pair it staged.
PyStep_Swallow(acc, src, dest, r) ==
    [fs |-> r.fs, err |-> "none",
     full_dests |-> IF r.err = "none" THEN Append(acc.full_dests, r.ret)
                    ELSE acc.full_dests,
     log |-> acc.log \o r.log,
     steps |-> Append(acc.steps, [src |-> src, dest |-> dest, err |-> r.err,
                                   full_dest |-> r.full_dest, fs |-> r.fs])]

PyStep(acc, src, dest, r) ==
    [fs |-> r.fs, err |-> r.err,
     full_dests |-> IF r.err = "none" THEN Append(acc.full_dests, r.ret)
                    ELSE acc.full_dests,
     log |-> acc.log \o r.log,
     steps |-> Append(acc.steps, [src |-> src, dest |-> dest, err |-> r.err,
                                   full_dest |-> r.full_dest, fs |-> r.fs])]

RECURSIVE PyLoop(_, _, _, _, _, _)
PyLoop(acc, labexts, base_path, args, order, dirTime) ==
    IF labexts = <<>> \/ acc.err # "none" THEN acc
    ELSE PyLoop(PyStep(acc, base_path \o Head(labexts).src, Head(labexts).dest,
                       develop_labextension(acc.fs,
                           [path |-> base_path \o Head(labexts).src,
                            symlink |-> args.symlink, overwrite |-> args.overwrite,
                            destination |-> Head(labexts).dest,
                            user |-> args.user, sys_prefix |-> args.sys_prefix,
                            labextensions_dir |-> args.labextensions_dir],
                           order, dirTime)),
                Tail(labexts), base_path, args, order, dirTime)

PyReturn(acc) ==
    [fs |-> acc.fs, err |-> acc.err, log |-> acc.log, msg |-> <<>>,
     ret |-> IF acc.err = "none" THEN acc.full_dests ELSE <<>>,
     full_dest |-> NoEnt, steps |-> acc.steps]

develop_labextension_py(f, args, order, dirTime) ==
    PyReturn(PyLoop(PyStart(f), args.module.labexts, args.module.base_path, args,
                    order, dirTime))

(***************************************************************************)
(* The filesystems the model starts from.  The sources are /ext/foo (a     *)
(* directory with a.js, b.js and sub/c.js), /ext/bar (a directory with     *)
(* a.js) and nothing at /ext/none.  The default labextensions directory    *)
(* is absent, empty, or holds an entry foo of each kind the code tells     *)
(* apart.                                                                  *)
(***************************************************************************)
FooDir == <<"ext", "foo">>
BarDir == <<"ext", "bar">>
Missing == <<"ext", "none">>
SysLabext == <<"sys", "labextensions">>
FooDest == <<"sys", "labextensions", "foo">>

Sources ==
    (<<"ext">> :> Dir) @@ (FooDir :> Dir)
    @@ (<<"ext", "foo", "a.js">> :> File(10, 1))
    @@ (<<"ext", "foo", "b.js">> :> File(10, 2))
    @@ (<<"ext", "foo", "sub">> :> Dir)
    @@ (<<"ext", "foo", "sub", "c.js">> :> File(10, 3))
    @@ (BarDir :> Dir)
    @@ (<<"ext", "bar", "a.js">> :> File(7, 4))

EmptyLabext == Sources @@ (<<"sys">> :> Dir) @@ (SysLabext :> Dir)

\* foo staged by copy some time ago: a.js out of date, b.js up to date within
\* the fudge factor, and two entries the source no longer has.
StagedOld ==
    EmptyLabext @@ (FooDest :> Dir)
    @@ (Append(FooDest, "a.js") :> File(5, 91))
    @@ (Append(FooDest, "b.js") :> File(9, 92))
    @@ (Append(FooDest, "old.js") :> File(3, 93))
    @@ (Append(FooDest, "olddir") :> Dir)
    @@ (FooDest \o <<"olddir", "x.js">> :> File(3, 94))

\* foo staged by copy, but a regular file sits where the directory sub goes.
StagedBlocked ==
    EmptyLabext @@ (FooDest :> Dir)
    @@ (Append(FooDest, "a.js") :> File(10, 1))
    @@ (Append(FooDest, "sub") :> File(3, 95))

InitFS == {
    Sources,
    EmptyLabext,
    StagedOld,
    StagedBlocked,
    EmptyLabext @@ (FooDest :> File(4, 96)),
    EmptyLabext @@ (FooDest :> Link(FooDir)),
    EmptyLabext @@ (FooDest :> Link(BarDir)),
    EmptyLabext @@ (FooDest :> Link(Missing)),
    EmptyLabext @@ (FooDest :> Link(<<"ext", "bar", "a.js">>)) }

(***************************************************************************)
(* The inputs of the calls.                                                *)
(***************************************************************************)
\* path: a directory, a directory written with a trailing separator, a
\* regular file, and a path where nothing is.
Paths == {FooDir, Append(BarDir, ""), <<"ext", "foo", "a.js">>, Missing}
Destinations == {None, "foo"}

\* The location selectors develop_labextension is called with: none set (the
\* system-wide directory), or a conflicting set.
NoSelector == [user |-> FALSE, sys_prefix |-> FALSE, labextensions_dir |-> None]
ConflictingSelectors == {
    [user |-> TRUE, sys_prefix |-> TRUE, labextensions_dir |-> None],
    [user |-> FALSE, sys_prefix |-> TRUE, labextensions_dir |-> "lab"],
    [user |-> TRUE, sys_prefix |-> FALSE, labextensions_dir |-> "lab"],
    [user |-> TRUE, sys_prefix |-> TRUE, labextensions_dir |-> "lab"] }

Request(p, s, o, d, sel) ==
    [path |-> p, symlink |-> s, overwrite |-> o, destination |-> d,
     user |-> sel.user, sys_prefix |-> sel.sys_prefix,
     labextensions_dir |-> sel.labextensions_dir]

Requests ==
    {Request(p, s, o, d, NoSelector) :
        p \in Paths, s \in BOOLEAN, o \in BOOLEAN, d \in Destinations}
    \cup {Request(FooDir, s, TRUE, None, sel) : s \in BOOLEAN, sel \in ConflictingSelectors}

\* The orders os.scandir may list a directory in.
Names == <<"a.js", "b.js", "c.js", "old.js", "olddir", "sub", "x.js", "foo", "bar", "none">>
Reverse(q) == [i \in 1..Len(q) |-> q[Len(q) + 1 - i]]
Orders == {Names, Reverse(Names)}

\* The modification times a directory may have.
DirTimes == {0, 50}

\* What the filesystem decides is drawn where the call can read it: a
\* directory is scanned, and the time of a directory read, in copy mode only.
OrdersFor(f, req) == IF ~req.symlink /\ isdir(f, req.path) THEN Orders ELSE {Names}
DirTimesFor(f, req) == IF ~req.symlink THEN DirTimes ELSE {0}

NoReq == [path |-> <<>>, symlink |-> FALSE, overwrite |-> FALSE, destination |-> None,
          user |-> FALSE, sys_prefix |-> FALSE, labextensions_dir |-> None]
NoPrev == [op |-> "none", req |-> NoReq, err |-> "none", full_dest |-> NoEnt, log |-> <<>>]
NoCall == [op |-> "none", req |-> NoReq, pre |-> <<>>, err |-> "none", ret |-> NoEnt,
           stale |-> FALSE, log |-> <<>>, msg |-> <<>>, full_dest |-> NoEnt,
           steps |-> <<>>, prev |-> NoPrev, gap |-> FALSE]

\* Two invocations of develop_labextension run side by side.  Each is at a
\* line of the function (pc), with its arguments, its full_dest, the error it
\* raised, whether os.path.exists at line 109 answered false (absent),
\* whether the other invocation changed the filesystem while it ran
\* (interfered), and what the call raises when nothing runs beside it (alone).
Procs == {"A", "B"}
Idle == [pc |-> "start", req |-> NoReq, full_dest |-> NoEnt, err |-> "none",
         absent |-> FALSE, interfered |-> FALSE, alone |-> "none"]

Init ==
    /\ fs \in InitFS
    /\ last = NoCall
    /\ calls = 0
    /\ touched = 0
    /\ dirty = FALSE
    /\ procs = [p \in Procs |-> Idle]

(***************************************************************************)
(* The record of a call: its name, arguments, the filesystem it started    *)
(* from (pre), what it raised or returned, the filesystem calls it made,   *)
(* the call before it (prev) and whether the environment touched the       *)
(* filesystem between the two (gap).                                       *)
(***************************************************************************)
Called(op, req, r, stale, steps) ==
    /\ fs' = r.fs
    /\ last' = [op |-> op, req |-> req, pre |-> fs, err |-> r.err, ret |-> r.ret,
                stale |-> stale, log |-> r.log, msg |-> r.msg,
                full_dest |-> r.full_dest, steps |-> steps,
                prev |-> [op |-> last.op, req |-> last.req, err |-> last.err,
                          full_dest |-> last.full_dest, log |-> last.log],
                gap |-> dirty]
    /\ calls' = calls + 1
    /\ dirty' = FALSE
    /\ UNCHANGED <<touched, procs>>

\* A call of develop_labextension with arguments from R.
DevelopFrom(R) ==
    /\ calls < MaxCalls
    /\ \E req \in R :
       \E order \in OrdersFor(fs, req), dirTime \in DirTimesFor(fs, req) :
       \E r \in {develop_labextension(fs, req, order, dirTime)} :
          Called("develop", req, r, FALSE, <<>>)

Develop == DevelopFrom(Requests)

(***************************************************************************)
(* Between two calls the environment edits a source file: new content, a   *)
(* later modification time (by one unit, which the fudge factor absorbs,   *)
(* or by two).                                                             *)
(***************************************************************************)
TouchFiles == {<<"ext", "foo", "a.js">>}

Touch ==
    /\ touched < MaxTouch
    /\ 0 < calls /\ calls < MaxCalls
    /\ \E p \in TouchFiles, d \in {1, 2} :
         /\ p \in DOMAIN fs
         /\ fs[p].kind = "file"
         /\ fs' = [fs EXCEPT ![p] = File(@.mtime + d, @.data + 100)]
    /\ touched' = touched + 1
    /\ dirty' = TRUE
    /\ UNCHANGED <<last, calls, procs>>

Next == Develop \/ Touch

Spec == Init /\ [][Next]_vars

(***************************************************************************)
(* The location selectors: calls of _get_labextension_dir with every       *)
(* combination of the four selectors, and calls of develop_labextension    *)
(* with every combination of the three it takes.                           *)
(***************************************************************************)
SelectorValues == [user : BOOLEAN, sys_prefix : BOOLEAN, prefix : {None, "", "opt"},
                   labextensions_dir : {None, "", "lab"}]

Resolve ==
    /\ calls < MaxCalls
    /\ \E sel \in SelectorValues :
       \E d \in {_get_labextension_dir(sel.user, sel.sys_prefix, sel.prefix,
                                       sel.labextensions_dir)} :
          Called("resolve", sel,
                 [fs |-> fs, err |-> d.err, ret |-> d.labext, log |-> <<>>,
                  msg |-> d.msg, full_dest |-> NoEnt],
                 FALSE, <<>>)

SelectedRequests ==
    {Request(FooDir, s, o, None, [user |-> sel.user, sys_prefix |-> sel.sys_prefix,
                                  labextensions_dir |-> sel.labextensions_dir]) :
        s \in BOOLEAN, o \in {FALSE},
        sel \in {v \in SelectorValues : v.prefix = None /\ v.labextensions_dir # ""}}

DevelopSelected == DevelopFrom(SelectedRequests)

NextSelectors == Resolve \/ DevelopSelected

SpecSelectors == Init /\ [][NextSelectors]_vars

(***************************************************************************)
(* The staleness check: calls of _should_copy on pairs of paths, between   *)
(* stages by copy and edits of the source.                                 *)
(***************************************************************************)
StaleSources == {<<"ext", "foo", "a.js">>, <<"ext", "foo", "b.js">>,
                 <<"ext", "bar", "a.js">>, Missing}
StaleDests == {FooDest, Append(FooDest, "a.js"), Append(FooDest, "b.js"),
               Append(FooDest, "sub"), Append(SysLabext, "bar")}

ShouldCopy ==
    /\ calls < MaxCalls
    /\ \E src \in StaleSources, dest \in StaleDests, dirTime \in DirTimes :
       \E sc \in {_should_copy(fs, src, dest, dirTime)} :
          Called("should_copy", [src |-> src, dest |-> dest, dirTime |-> dirTime],
                 [fs |-> fs, err |-> sc.err, ret |-> NoEnt, log |-> <<>>,
                  msg |-> <<>>, full_dest |-> NoEnt],
                 sc.ret, <<>>)

CopyRequests == {Request(p, FALSE, FALSE, d, NoSelector) :
                    p \in {FooDir, Append(BarDir, "")}, d \in Destinations}

DevelopCopy == DevelopFrom(CopyRequests)

NextStale == ShouldCopy \/ DevelopCopy \/ Touch

SpecStale == Init /\ [][NextStale]_vars

(***************************************************************************)
(* Multi-target staging: calls of develop_labextension_py on modules that  *)
(* declare up to MaxPairs pairs.                                           *)
(***************************************************************************)
MaxPairs == 2

Pairs == {[src |-> <<"foo">>, dest |-> "foo"],
          [src |-> <<"bar">>, dest |-> "x"],
          [src |-> <<"none">>, dest |-> "y"]}

Modules ==
    {[base_path |-> <<"ext">>, labexts |-> l] :
        l \in UNION {[1..n -> Pairs] : n \in 0..MaxPairs}}

PyRequests ==
    {[module |-> m, symlink |-> s, overwrite |-> o,
      user |-> FALSE, sys_prefix |-> FALSE, labextensions_dir |-> None] :
        m \in Modules, s \in BOOLEAN, o \in BOOLEAN}

DevelopPy ==
    /\ calls < MaxCalls
    /\ \E req \in PyRequests :
       \E order \in (IF req.symlink THEN {Names} ELSE Orders),
          dirTime \in (IF req.symlink THEN {0} ELSE DirTimes) :
       \E r \in {develop_labextension_py(fs, req, order, dirTime)} :
          Called("develop_py", req, r, FALSE, r.steps)

NextPy == DevelopPy

SpecPy == Init /\ [][NextPy]_vars

(***************************************************************************)
(* Two invocations side by side.  An invocation of develop_labextension in *)
(* link mode is a sequence of filesystem calls, one step each: lines       *)
(* 82-95, 96, 99, 100, 102, 105, 109, 112, 113.  The steps of the two      *)
(* invocations interleave in any order.                                    *)
(***************************************************************************)
RaceRequests ==
    {Request(p, TRUE, o, "foo", NoSelector) : p \in {FooDir, BarDir}, o \in BOOLEAN}

Running(q) == procs[q].pc \notin {"start", "done", "failed"}

\* The invocation p goes on as new, the filesystem becomes f; an invocation
\* that is running while the filesystem changes is interfered with.
Moved(p, new, f) ==
    /\ fs' = f
    /\ procs' = [q \in Procs |->
                    IF q = p THEN new
                    ELSE IF f # fs /\ Running(q)
                         THEN [procs[q] EXCEPT !.interfered = TRUE]
                    ELSE procs[q]]
    /\ UNCHANGED <<last, calls, touched, dirty>>

\* The invocation p goes to the line pc, or fails with the error of r.
Goes(p, pc, r) ==
    Moved(p, [procs[p] EXCEPT !.pc = IF r.err = "none" THEN pc ELSE "failed",
                              !.err = r.err],
          r.fs)

RaceBegin(p) ==
    /\ procs[p].pc = "start"
    /\ \E req \in RaceRequests :
       \E d \in {_get_labextension_dir(req.user, req.sys_prefix, None,
                                       req.labextensions_dir)} :
       \E r \in {ensure_dir_exists(fs, d.labext)} :
          Moved(p, [pc |-> IF r.err = "none" THEN "lexists" ELSE "failed",
                    req |-> req, full_dest |-> FullDest(d.labext, req),
                    err |-> r.err, absent |-> FALSE, interfered |-> FALSE,
                    alone |-> develop_labextension(fs, req, Names, 0).err],
                r.fs)

RaceLexists(p) ==
    /\ procs[p].pc = "lexists"
    /\ Goes(p, IF procs[p].req.overwrite /\ lexists(fs, procs[p].full_dest)
               THEN "isdir" ELSE "makedirs",
            Ok(fs))

\* A line 99 that does not look for a symbolic link.
RaceIsdir_Follow(p) ==
    /\ procs[p].pc = "isdir"
    /\ Goes(p, IF isdir(fs, procs[p].full_dest) THEN "rmtree" ELSE "remove", Ok(fs))

RaceIsdir(p) ==
    /\ procs[p].pc = "isdir"
    /\ Goes(p, IF isdir(fs, procs[p].full_dest) /\ ~islink(fs, procs[p].full_dest)
               THEN "rmtree" ELSE "remove",
            Ok(fs))

RaceRmtree(p) ==
    /\ procs[p].pc = "rmtree"
    /\ Goes(p, "makedirs", rmtree(fs, procs[p].full_dest))

RaceRemove(p) ==
    /\ procs[p].pc = "remove"
    /\ Goes(p, "makedirs", remove(fs, procs[p].full_dest))

RaceMakedirs(p) ==
    /\ procs[p].pc = "makedirs"
    /\ Goes(p, "exists", makedirs(fs, dirname(procs[p].full_dest), TRUE))

RaceExists(p) ==
    /\ procs[p].pc = "exists"
    /\ IF ~exists(fs, procs[p].full_dest)
       THEN Moved(p, [procs[p] EXCEPT !.pc = "symlink", !.absent = TRUE], fs)
       ELSE Moved(p, [procs[p] EXCEPT !.pc = "islink"], fs)

RaceSymlink(p) ==
    /\ procs[p].pc = "symlink"
    /\ Goes(p, "done", symlink(fs, abspath(procs[p].req.path), procs[p].full_dest))

RaceIslink(p) ==
    /\ procs[p].pc = "islink"
    /\ Goes(p, "done", IF ~islink(fs, procs[p].full_dest)
                       THEN Fail(fs, "ValueError") ELSE Ok(fs))

NextRace ==
    \E p \in Procs :
        \/ RaceBegin(p)
        \/ RaceLexists(p)
        \/ RaceIsdir(p)
        \/ RaceRmtree(p)
        \/ RaceRemove(p)
        \/ RaceMakedirs(p)
        \/ RaceExists(p)
        \/ RaceSymlink(p)
        \/ RaceIslink(p)

SpecRace == Init /\ [][NextRace]_vars

(***************************************************************************)
(* What the properties say about the last call.                            *)
(***************************************************************************)
\* The state is the one the last call left: fs is the filesystem after it.
After(op) == last.op = op /\ ~dirty
IsDevelop == After("develop")

\* The last call repeats the call before it: the same arguments, and nothing
\* happened to the filesystem between the two.
Repeated ==
    IsDevelop /\ last.prev.op = "develop" /\ last.prev.req = last.req /\ ~last.gap

\* How many selectors of the last call are truthy.
SelectorsSet ==
    Cardinality({n \in {"user", "sys_prefix", "prefix", "labextensions_dir"} :
        \/ n = "user" /\ last.req.user
        \/ n = "sys_prefix" /\ last.req.sys_prefix
        \/ n = "prefix" /\ last.op = "resolve" /\ Truthy(last.req.prefix)
        \/ n = "labextensions_dir" /\ Truthy(last.req.labextensions_dir)})

Performed(log, ops) == {i \in DOMAIN log : log[i].op \in ops /\ log[i].ok}
Attempted(log, ops) == {i \in DOMAIN log : log[i].op \in ops}

\* The files below the directory path names.
SourceFiles(f, path) ==
    {p \in Under(f, Real(f, path, MaxSymlinks)) : f[p].kind = "file"}

\* The tree below the real directory root: relative path, kind, time, content.
Tree(f, root) ==
    {<<SubSeq(p, Len(root) + 1, Len(p)), f[p].kind, f[p].mtime, f[p].data>> :
        p \in Under(f, root) \ {root}}

\* The entry at the place p names, when there is one and it is no link.
RealEntry(f, p) ==
    Present(f, LReal(f, p)) /\ LReal(f, p) # <<>> /\ f[LReal(f, p)].kind \in {"file", "dir"}

(***************************************************************************)
(* C1. Link-mode idempotence: when a call with symlink=True that succeeded *)
(* is repeated with the same arguments, the second call raises no error,   *)
(* leaves the filesystem as it was, and the destination is a symbolic      *)
(* link; a source that does not exist and overwrite=True included.         *)
(***************************************************************************)
C1_LinkIdempotent ==
    (Repeated /\ last.req.symlink /\ last.prev.err = "none")
        => /\ last.err = "none"
           /\ fs = last.pre
           /\ islink(fs, last.full_dest)

(***************************************************************************)
(* C2. Copy-mode idempotence: when a call with symlink=False and           *)
(* overwrite=False on a source directory that succeeded is repeated, the   *)
(* source not modified in between, the second call performs no copy: every *)
(* file of the source tree is reported up to date, because the first call  *)
(* left no destination file older than its source by more than 1e-6 s (a   *)
(* file it copied has the time of its source, a file it found up to date   *)
(* keeps its own time).                                                    *)
(***************************************************************************)
CopyTwice ==
    /\ Repeated /\ ~last.req.symlink /\ ~last.req.overwrite
    /\ last.prev.err = "none" /\ isdir(last.pre, last.req.path)

\* The destination file of the source file p, as the last call names it.
DestFile(p) ==
    last.full_dest
        \o SubSeq(p, Len(Real(last.pre, last.req.path, MaxSymlinks)) + 1, Len(p))

NoCopyAgain ==
    /\ last.err = "none"
    /\ Attempted(last.log, {"copy2"}) = {}
    /\ {last.log[i].src : i \in Performed(last.log, {"up_to_date"})}
         = SourceFiles(last.pre, last.req.path)
    /\ fs = last.pre

C2_CopyIdempotent ==
    CopyTwice
        => /\ NoCopyAgain
           /\ \A p \in SourceFiles(last.pre, last.req.path) :
                /\ exists(last.pre, DestFile(p))
                /\ last.pre[p].mtime
                     - last.pre[Real(last.pre, DestFile(p), MaxSymlinks)].mtime <= 1

(***************************************************************************)
(* C2 as the specification states it: the second call performs no copy     *)
(* because the first call left each destination file with the              *)
(* modification time of its source.                                        *)
(***************************************************************************)
C2_SameTimes ==
    CopyTwice
        => /\ NoCopyAgain
           /\ \A p \in SourceFiles(last.pre, last.req.path) :
                /\ exists(last.pre, DestFile(p))
                /\ last.pre[Real(last.pre, DestFile(p), MaxSymlinks)].mtime
                     = last.pre[p].mtime

C2_Witness ==
    /\ CopyTwice
    /\ Performed(last.prev.log, {"copy2"}) # {}
    /\ Cardinality(Performed(last.log, {"up_to_date"})) = 3

(***************************************************************************)
(* C3. Overwrite semantics: after a successful call with overwrite=True    *)
(* and symlink=False on a source directory, the destination having been a  *)
(* directory, the destination is a real directory whose tree is exactly    *)
(* the tree of the source: nothing of the old destination remains.         *)
(***************************************************************************)
C3_OverwriteMirrors ==
    (/\ IsDevelop /\ last.err = "none" /\ last.req.overwrite /\ ~last.req.symlink
     /\ isdir(last.pre, last.req.path) /\ isdir(last.pre, last.full_dest))
        => /\ last.full_dest \in DOMAIN fs
           /\ fs[last.full_dest].kind = "dir"
           /\ Tree(fs, last.full_dest) = Tree(last.pre, abspath(last.req.path))

C3_Witness ==
    /\ IsDevelop /\ last.err = "none" /\ last.req.overwrite /\ ~last.req.symlink
    /\ isdir(last.pre, last.req.path)
    /\ Append(last.full_dest, "old.js") \in DOMAIN last.pre
    /\ FooDest \o <<"olddir", "x.js">> \in DOMAIN last.pre
    /\ FooDest \o <<"sub", "c.js">> \in DOMAIN fs

TimeOf(f, q, dirTime) == IF q = <<>> \/ f[q].kind = "dir" THEN dirTime ELSE f[q].mtime

C5_Staleness ==
    After("should_copy")
        => /\ fs = last.pre
           /\ Real(fs, last.req.dest, MaxSymlinks) = NoEnt
                => last.err = "none" /\ last.stale
           /\ (/\ Real(fs, last.req.dest, MaxSymlinks) # NoEnt
               /\ Real(fs, last.req.src, MaxSymlinks) # NoEnt)
                => /\ last.err = "none"
                   /\ last.stale <=>
                        (TimeOf(fs, Real(fs, last.req.src, MaxSymlinks), last.req.dirTime)
                         - TimeOf(fs, Real(fs, last.req.dest, MaxSymlinks), last.req.dirTime)
                           > 1)

C5_Witness ==
    /\ After("should_copy") /\ ~last.stale /\ last.err = "none"
    /\ last.req.src = <<"ext", "foo", "b.js">>
    /\ last.req.dest = Append(FooDest, "b.js")
    /\ last.req.dest \in DOMAIN fs
    /\ fs[last.req.src].mtime - fs[last.req.dest].mtime = 1

(***************************************************************************)
(* C6. Link mode refuses to replace a real entry: a call with symlink=True *)
(* and overwrite=False whose destination is a regular file or a real       *)
(* directory raises ValueError and leaves the filesystem as it was.        *)
(***************************************************************************)
C6_RefuseRealEntry ==
    (/\ IsDevelop /\ last.req.symlink /\ ~last.req.overwrite
     /\ last.err # "ArgumentConflict" /\ RealEntry(last.pre, last.full_dest))
        => /\ last.err = "ValueError"
           /\ fs = last.pre

C6_Witness ==
    /\ IsDevelop /\ last.req.symlink /\ ~last.req.overwrite
    /\ last.err = "ValueError"
    /\ last.full_dest \in DOMAIN last.pre
    /\ last.pre[last.full_dest].kind = "dir"
    /\ Append(last.full_dest, "old.js") \in DOMAIN fs

(***************************************************************************)
(* C7. Link mode and copy mode exclude each other: after a call with       *)
(* symlink=True created the destination as a symbolic link, a call with    *)
(* symlink=False and overwrite=False on the same destination copies no     *)
(* file, and the tree the link points to is as it was.                     *)
(***************************************************************************)
C7_NoCopyThroughLink ==
    (/\ IsDevelop /\ ~last.req.symlink /\ ~last.req.overwrite
     /\ last.prev.op = "develop" /\ last.prev.req.symlink /\ last.prev.err = "none"
     /\ last.prev.full_dest = last.full_dest
     /\ Performed(last.prev.log, {"symlink"}) # {})
        => /\ Performed(last.log, {"copy2"}) = {}
           /\ Tree(fs, abspath(last.prev.req.path))
                = Tree(last.pre, abspath(last.prev.req.path))

(***************************************************************************)
(* C8. Overwrite never deletes through a symbolic link: when a call with   *)
(* overwrite=True finds a symbolic link at the destination, it unlinks the *)
(* link (os.remove, not shutil.rmtree) and every other entry the           *)
(* filesystem had, the link's target and what is under it included, is     *)
(* still there unchanged.  rmtree is called on a real directory only.      *)
(***************************************************************************)
C8_UnlinkOnly ==
    /\ (/\ IsDevelop /\ last.req.overwrite /\ last.err # "ArgumentConflict"
        /\ IsLinkAt(last.pre, LReal(last.pre, last.full_dest)))
          => /\ \E i \in Performed(last.log, {"remove"}) : last.log[i].dst = last.full_dest
             /\ Attempted(last.log, {"rmtree"}) = {}
             /\ \A p \in DOMAIN last.pre \ {LReal(last.pre, last.full_dest)} :
                    p \in DOMAIN fs /\ fs[p] = last.pre[p]
    /\ (IsDevelop /\ Attempted(last.log, {"rmtree"}) # {})
          => /\ last.full_dest \in DOMAIN last.pre
             /\ last.pre[last.full_dest].kind = "dir"

C8_Witness ==
    /\ IsDevelop /\ last.req.overwrite /\ last.err = "none"
    /\ last.full_dest \in DOMAIN last.pre
    /\ last.pre[last.full_dest] = Link(BarDir)
    /\ ~last.req.symlink /\ isdir(last.pre, last.req.path)
    /\ fs[last.full_dest].kind = "dir"
    /\ <<"ext", "bar", "a.js">> \in DOMAIN fs

(***************************************************************************)
(* C9. Deletion is confined: a call deletes an entry only with             *)
(* overwrite=True, only at or under its own destination path, and only     *)
(* before it stages anything; a call with overwrite=False deletes          *)
(* nothing, so what the destination holds and the source does not          *)
(* survives it.                                                            *)
(***************************************************************************)
StagingOps == {"symlink", "makedirs", "copy2"}

C9_DeletionConfined ==
    IsDevelop
        => /\ \A i \in Attempted(last.log, {"rmtree", "remove"}) :
                /\ last.req.overwrite
                /\ last.log[i].dst = last.full_dest
                /\ \A j \in 1..i : last.log[j].op \notin StagingOps
           /\ \A p \in DOMAIN last.pre :
                \/ p \in DOMAIN fs /\ fs[p].kind = last.pre[p].kind
                \/ last.req.overwrite /\ last.full_dest # NoEnt
                   /\ IsPrefix(LReal(last.pre, last.full_dest), p)

C9_Witness ==
    /\ IsDevelop /\ ~last.req.overwrite /\ ~last.req.symlink /\ last.err = "none"
    /\ Performed(last.log, {"copy2"}) # {}
    /\ Append(last.full_dest, "old.js") \in DOMAIN fs
    /\ FooDest \o <<"olddir", "x.js">> \in DOMAIN fs


(***************************************************************************)
(* C10. Multi-target staging: develop_labextension_py stages the declared  *)
(* pairs one at a time in declaration order; when it succeeds it returns   *)
(* the destination path of every pair, in declaration order; when the      *)
(* staging of pair k fails, that error is raised, no pair after k is       *)
(* attempted, and what the pairs before k staged is still in place.        *)
(***************************************************************************)
PairDest(i) == Append(SysLabext, last.req.module.labexts[i].dest)
PairSrc(i) == last.req.module.base_path \o last.req.module.labexts[i].src

\* What the filesystem f holds at and under the place p names.
Held(f, p) == {<<q, f[q]>> : q \in Under(f, LReal(f, p))}

C10_MultiTarget ==
    After("develop_py") =>
        LET n == Len(last.req.module.labexts)
            k == Len(last.steps)
        IN  /\ k <= n
            /\ \A i \in 1..k : /\ last.steps[i].src = PairSrc(i)
                               /\ last.steps[i].dest = last.req.module.labexts[i].dest
                               /\ last.steps[i].full_dest = PairDest(i)
            /\ \A i \in 1..(k - 1) : last.steps[i].err = "none"
            /\ last.err = "none"
                => /\ k = n
                   /\ last.ret = [i \in 1..n |-> PairDest(i)]
            /\ last.err # "none"
                => /\ k >= 1
                   /\ last.steps[k].err = last.err
                   /\ last.ret = <<>>
                   /\ \A j \in (k + 1)..n :
                        PairDest(j) \notin {PairDest(i) : i \in 1..k}
                            => /\ Held(fs, PairDest(j)) = Held(last.pre, PairDest(j))
                               /\ \A e \in DOMAIN last.log :
                                    ~IsPrefix(PairDest(j), last.log[e].dst)
                   /\ \A i \in 1..(k - 1) :
                        PairDest(i) \notin {PairDest(j) : j \in (i + 1)..k}
                            => /\ lexists(fs, PairDest(i))
                               /\ Held(fs, PairDest(i)) = Held(last.steps[i].fs, PairDest(i))

C10_Witness ==
    /\ After("develop_py") /\ last.err = "ValueError"
    /\ Len(last.req.module.labexts) = 2 /\ Len(last.steps) = 2
    /\ last.req.module.labexts[1].dest = "x"
    /\ islink(fs, Append(SysLabext, "x"))
    /\ ~lexists(last.pre, Append(SysLabext, "x"))

(***************************************************************************)
(* C11. Missing source in multi-target staging: when                       *)
(* develop_labextension_py stages two declared pairs with different        *)
(* destinations, nothing being at either destination, and the source of    *)
(* the second pair does not exist while the source of the first does, the  *)
(* first pair is staged, the call fails on the second pair, and no entry   *)
(* is at the destination of the second pair afterwards; with symlink=True  *)
(* as with symlink=False.                                                  *)
(***************************************************************************)
SecondMissing ==
    /\ After("develop_py")
    /\ Len(last.req.module.labexts) = 2
    /\ PairDest(1) # PairDest(2)
    /\ ~lexists(last.pre, PairDest(1)) /\ ~lexists(last.pre, PairDest(2))
    /\ exists(last.pre, PairSrc(1)) /\ ~exists(last.pre, PairSrc(2))

C11_MissingSource ==
    SecondMissing
        => /\ Len(last.steps) = 2
           /\ last.steps[1].err = "none"
           /\ lexists(fs, PairDest(1))
           /\ last.err # "none" /\ last.steps[2].err = last.err
           /\ last.ret = <<>>
           /\ ~lexists(fs, PairDest(2))

(***************************************************************************)
(* C12. Fresh link-mode stage: a call with symlink=True, no destination    *)
(* and no selector, nothing being at the destination, returns the          *)
(* system-wide directory joined with the last component of the source      *)
(* path, trailing separators stripped, and afterwards that path is a       *)
(* symbolic link whose target is the absolute source path.                 *)
(***************************************************************************)
\* The last component of the requested path that is no trailing separator.
BaseName(path) == LET q == SelectSeq(path, LAMBDA c : c # "") IN q[Len(q)]

FreshDest == Append(SysLabext, BaseName(last.req.path))

FreshLink ==
    /\ IsDevelop /\ last.req.symlink /\ last.req.destination = None
    /\ SelectorsSet = 0
    /\ ~lexists(last.pre, FreshDest)

C12_FreshLink ==
    FreshLink
        => /\ last.err = "none"
           /\ last.ret = FreshDest
           /\ FreshDest \in DOMAIN fs
           /\ fs[FreshDest].kind = "link"
           /\ fs[FreshDest].target = SelectSeq(last.req.path, LAMBDA c : c # "")

C12_Witness ==
    /\ FreshLink /\ last.err = "none"
    /\ last.req.path = Append(BarDir, "")
    /\ last.ret = Append(SysLabext, "bar")
    /\ fs[Append(SysLabext, "bar")] = Link(BarDir)

(***************************************************************************)
(* C13. Destination resolution for at most one selector: with no selector  *)
(* truthy _get_labextension_dir returns the first system path joined with  *)
(* labextensions, on every call; with exactly one truthy it returns: for   *)
(* user the user data directory joined with labextensions, for sys_prefix  *)
(* the first environment path joined with labextensions, for prefix        *)
(* prefix/share/jupyter/labextensions, for labextensions_dir the given     *)
(* directory unchanged.  It raises nothing and touches no file.            *)
(***************************************************************************)
C13_Resolution ==
    (After("resolve") /\ SelectorsSet <= 1)
        => /\ last.err = "none"
           /\ fs = last.pre
           /\ SelectorsSet = 0 => last.ret = <<"sys", "labextensions">>
           /\ last.req.user => last.ret = <<"user", "labextensions">>
           /\ last.req.sys_prefix => last.ret = <<"env", "labextensions">>
           /\ last.req.prefix \notin {None, ""}
                => last.ret = <<last.req.prefix, "share", "jupyter", "labextensions">>
           /\ last.req.labextensions_dir \notin {None, ""}
                => last.ret = <<last.req.labextensions_dir>>

C13_Witness ==
    /\ After("resolve") /\ SelectorsSet = 1 /\ last.err = "none"
    /\ last.req.sys_prefix /\ last.req.prefix = "" /\ last.req.labextensions_dir = ""
    /\ last.ret = <<"env", "labextensions">>

(***************************************************************************)
(* C14. The message of the conflicting-selectors error lists every truthy  *)
(* selector with its value, lists no selector that is not set, and lists   *)
(* the selectors sorted by name: labextensions_dir, prefix, sys_prefix,    *)
(* user.                                                                   *)
(***************************************************************************)
SortedNames == <<"labextensions_dir", "prefix", "sys_prefix", "user">>
RankOf(n) == CHOOSE i \in DOMAIN SortedNames : SortedNames[i] = n

\* The selectors the last call set, each with the repr of its value.
SetSelectors ==
    (IF last.req.user THEN {<<"user", "True">>} ELSE {})
    \cup (IF last.req.sys_prefix THEN {<<"sys_prefix", "True">>} ELSE {})
    \cup (IF last.op = "resolve" /\ last.req.prefix \notin {None, ""}
          THEN {<<"prefix", last.req.prefix>>} ELSE {})
    \cup (IF last.req.labextensions_dir \notin {None, ""}
          THEN {<<"labextensions_dir", last.req.labextensions_dir>>} ELSE {})

Conflict == (After("resolve") \/ After("develop")) /\ last.err = "ArgumentConflict"

MessageLists ==
    /\ {last.msg[i] : i \in DOMAIN last.msg} = SetSelectors
    /\ Len(last.msg) = Cardinality(SetSelectors)

C14_MessageSorted ==
    Conflict
        => /\ MessageLists
           /\ \A i, j \in DOMAIN last.msg :
                i < j => RankOf(last.msg[i][1]) < RankOf(last.msg[j][1])

(***************************************************************************)
(* C15. Tree staging order: during a copy-mode stage of a source           *)
(* directory, whenever the copy of a file is attempted, the mirrored       *)
(* destination directory that holds the file (the root of the destination  *)
(* tree included) exists as a directory.                                   *)
(***************************************************************************)
CopyTree == IsDevelop /\ ~last.req.symlink /\ isdir(last.pre, last.req.path)

C15_DirBeforeFile ==
    CopyTree => \A i \in Attempted(last.log, {"copy2"}) : last.log[i].held

(***************************************************************************)
(* C16. Selective refresh: a copy-mode stage (symlink=False,               *)
(* overwrite=False) of a source directory copies only files whose source   *)
(* is stale against the destination file (destination missing, or source   *)
(* newer by more than 1e-6 s), and leaves every destination file that is   *)
(* up to date as it was, content and modification time; when it succeeds   *)
(* it has copied every stale file, the destination file then having the    *)
(* content and the time of its source, and returns the destination root    *)
(* joined with the destination name.                                       *)
(***************************************************************************)
\* The source file p is stale against its destination file before the call.
StaleBefore(p) ==
    \/ ~exists(last.pre, DestFile(p))
    \/ last.pre[p].mtime - last.pre[Real(last.pre, DestFile(p), MaxSymlinks)].mtime > 1

Copied(p) ==
    \E i \in Performed(last.log, {"copy2"}) :
        last.log[i].src = p /\ last.log[i].dst = DestFile(p)

Refresh == CopyTree /\ ~last.req.overwrite /\ SelectorsSet = 0

C16_SelectiveRefresh ==
    Refresh
        => /\ \A i \in Attempted(last.log, {"copy2"}) :
                /\ last.log[i].src \in SourceFiles(last.pre, last.req.path)
                /\ last.log[i].dst = DestFile(last.log[i].src)
                /\ StaleBefore(last.log[i].src)
           /\ \A p \in SourceFiles(last.pre, last.req.path) :
                /\ ~StaleBefore(p)
                     => LET q == Real(last.pre, DestFile(p), MaxSymlinks)
                        IN  q \in DOMAIN fs /\ fs[q] = last.pre[q]
                /\ (last.err = "none" /\ StaleBefore(p))
                     => /\ Copied(p)
                        /\ exists(fs, DestFile(p))
                        /\ LET q == Real(fs, DestFile(p), MaxSymlinks)
                           IN  /\ fs[q].kind = "file"
                               /\ fs[q].mtime = last.pre[p].mtime
                               /\ fs[q].data = last.pre[p].data
           /\ last.err = "none"
                => last.ret = Append(SysLabext,
                                     IF last.req.destination = None
                                     THEN BaseName(last.req.path)
                                     ELSE last.req.destination)

C16_Witness ==
    /\ Refresh /\ last.err = "none" /\ last.req.path = FooDir
    /\ Append(FooDest, "a.js") \in DOMAIN last.pre
    /\ Append(FooDest, "b.js") \in DOMAIN fs
    /\ last.pre[Append(FooDest, "a.js")] = File(5, 91)
    /\ fs[Append(FooDest, "a.js")] = File(10, 1)
    /\ fs[Append(FooDest, "b.js")] = File(9, 92)
    /\ Copied(<<"ext", "foo", "a.js">>) /\ ~Copied(<<"ext", "foo", "b.js">>)
    /\ last.ret = FooDest

(***************************************************************************)
(* C17. Tree mirror completeness: after a successful copy-mode stage of a  *)
(* source directory, for every directory at relative path r under the      *)
(* source there is a directory at destination/r, and for every file at r   *)
(* under the source there is a file at destination/r whose modification    *)
(* time is not older than the source's by more than 1e-6 s.                *)
(***************************************************************************)
\* The destination path of the source entry p, as the last call names it.
Mirror(p) == DestFile(p)

C17_MirrorComplete ==
    (CopyTree /\ last.err = "none")
        => \A p \in Under(fs, Real(last.pre, last.req.path, MaxSymlinks)) :
              /\ fs[p].kind = "dir" => isdir(fs, Mirror(p))
              /\ fs[p].kind = "file"
                   => /\ exists(fs, Mirror(p))
                      /\ LET q == Real(fs, Mirror(p), MaxSymlinks)
                         IN  /\ fs[q].kind = "file"
                             /\ fs[p].mtime - fs[q].mtime <= 1

C17_Witness ==
    /\ CopyTree /\ last.err = "none" /\ ~last.req.overwrite
    /\ last.req.path = FooDir
    /\ Append(FooDest, "b.js") \in DOMAIN last.pre
    /\ Append(FooDest, "sub") \notin DOMAIN last.pre
    /\ FooDest \o <<"sub", "c.js">> \in DOMAIN fs
    /\ fs[FooDest \o <<"sub", "c.js">>] = File(10, 3)
    /\ fs[Append(FooDest, "b.js")] = File(9, 92)

(***************************************************************************)
(* C18. Fail-fast without rollback: when a directory creation or a file    *)
(* copy fails during a copy-mode stage of a tree, it is the last call the  *)
(* stage makes: the error propagates, no destination path is returned, no  *)
(* later file is copied, the failed call is not made a second time, and    *)
(* the directories made and the files copied before it are still in the    *)
(* destination.                                                            *)
(***************************************************************************)
TreeOps == {"makedirs", "copy2"}

C18_FailFast ==
    CopyTree
        => /\ \A i \in Attempted(last.log, TreeOps) :
                ~last.log[i].ok
                    => /\ i = Len(last.log)
                       /\ last.err # "none"
                       /\ last.ret = NoEnt
                       /\ \A j \in 1..(i - 1) :
                            ~(last.log[j].op = last.log[i].op
                              /\ last.log[j].dst = last.log[i].dst)
           /\ last.err # "none"
                => /\ last.ret = NoEnt
                   /\ \A j \in Performed(last.log, {"makedirs"}) :
                        isdir(fs, last.log[j].dst)
                   /\ \A j \in Performed(last.log, {"copy2"}) :
                        /\ exists(fs, last.log[j].dst)
                        /\ LET q == Real(fs, last.log[j].dst, MaxSymlinks)
                           IN  /\ fs[q].kind = "file"
                               /\ fs[q].data = last.pre[last.log[j].src].data

C18_Witness ==
    /\ CopyTree /\ last.err # "none" /\ last.req.path = FooDir
    /\ Len(last.log) > 0
    /\ last.log[Len(last.log)].op = "copy2" /\ ~last.log[Len(last.log)].ok
    /\ last.log[Len(last.log)].dst = FooDest \o <<"sub", "c.js">>
    /\ Append(FooDest, "b.js") \notin DOMAIN last.pre
    /\ Append(FooDest, "b.js") \in DOMAIN fs
    /\ fs[Append(FooDest, "b.js")] = File(10, 2)

(***************************************************************************)
(* C19. Known non-atomicity: the steps of one stage call on a destination  *)
(* (remove under overwrite, existence check, create link) are not atomic.  *)
(* Of two invocations on the same destination, one that the other did not  *)
(* interfere with ends as it ends when run alone; an invocation that       *)
(* succeeds alone can fail when the other changes the destination between  *)
(* its steps: both see the destination absent and the second os.symlink    *)
(* raises FileExistsError.                                                 *)
(***************************************************************************)
Ended(p) == procs[p].pc \in {"done", "failed"}

OnLink ==
    /\ IsDevelop /\ last.req.symlink /\ last.err # "ArgumentConflict"
    /\ IsLinkAt(last.pre, LReal(last.pre, last.full_dest))

C20_NoRetarget ==
    OnLink
        => /\ ~last.req.overwrite
                => /\ last.full_dest \in DOMAIN fs
                   /\ fs[last.full_dest] = last.pre[last.full_dest]
           /\ (last.req.overwrite /\ last.err = "none")
                => /\ last.full_dest \in DOMAIN fs
                   /\ fs[last.full_dest].kind = "link"
                   /\ fs[last.full_dest].target
                        = SelectSeq(last.req.path, LAMBDA c : c # "")

C20_Witness ==
    /\ OnLink /\ ~last.req.overwrite /\ last.err = "none"
    /\ last.req.path = FooDir
    /\ last.pre[last.full_dest] = Link(BarDir)
    /\ fs[last.full_dest] = Link(BarDir)

====
